---- MODULE Spec2Model ----
(***************************************************************************)
(* GeneralizationStage of libafl/src/stages/generalization.rs.            *)
(*                                                                         *)
(* perform() loads a corpus entry, probes the target once on the original *)
(* input and then runs 18 deletion phases (find_gaps with a stride or a   *)
(* delimiter, find_gaps_in_closures with a bracket pair) over a payload   *)
(* of Option<u8> slots, each phase ending in trim_payload; the payload is *)
(* stored as the generalized form when it fits MAX_GENERALIZED_LEN.       *)
(*                                                                         *)
(* One step of the model is one iteration of a loop of the stage (with    *)
(* the whole verify_input call the iteration makes), or the entry or the  *)
(* exit of perform.  Indexes (start, end, index) are 0-based as in the    *)
(* source; At(list, i) reads list[i].                                     *)
(***************************************************************************)
EXTENDS Integers, Sequences, FiniteSets, TLC

(***************************************************************************)
(* Bounds of the model.                                                    *)
(***************************************************************************)
\* Longest input of the enumerated families.
MaxLen == 3
\* Longest input run against a target whose coverage is not reproducible.
MaxFlakyLen == 2
\* perform() is invoked at most this many times on the entry.
MaxCalls == 2
\* Probes followed inside one find_gaps_in_closures call before the model
\* stops following the loop (the loop itself has no such limit).
MaxClosureProbes == 4

\* trim_payload on its own: the longest payload it is given, and the number
\* of times it is applied in a row.
MaxTrimLen == 5
MaxTrims == 2

(***************************************************************************)
(* A slot of the payload is an Option<u8>: Some(b) is the byte b itself,  *)
(* None a value that is no byte.  The Option around the generalized form  *)
(* of an input is a tuple: empty, or holding the slots.                    *)
(***************************************************************************)
None == -1
Some(b) == b

NoGeneralized == << >>
Generalized(slots) == << slots >>

At(list, i) == list[i + 1]

\* const MAX_GENERALIZED_LEN: usize = 8192;
MAX_GENERALIZED_LEN == 8192

\* payload[a..b] of the source (0-based, b exclusive).
Slice(list, a, b) == SubSeq(list, a + 1, b)

\* list.iter().filter(|x| x.is_some()).map(|x| x.unwrap())
\* (Unwrap of a Some slot is the slot's byte, so the kept slots are the bytes.)
FilterUnwrap(list) == SelectSeq(list, LAMBDA x : x # None)

\* input.bytes().iter().map(|&x| Some(x)).collect()
ToPayload(bs) == [i \in 1..Len(bs) |-> Some(bs[i])]

\* Variant of increment_by_offset without the `1 +`.
increment_by_offset_no_step(list, idx, off) == idx + off

\* Variant of increment_by_offset that steps one slot further.
increment_by_offset_plus_one(list, idx, off) == idx + 2 + off

\* fn increment_by_offset(_list, idx, off) -> usize
increment_by_offset(list, idx, off) == idx + 1 + off

\* Variant of find_next_char that returns the index of the matching slot
\* itself (`return idx`), leaving the delimiter outside the range.
find_next_char_exclusive(list, idx, ch) ==
    LET hits == {i \in idx..(Len(list) - 1) : At(list, i) = Some(ch)}
    IN  IF hits # {}
        THEN CHOOSE i \in hits : \A j \in hits : i <= j
        ELSE IF idx < Len(list) THEN Len(list) ELSE idx

\* fn find_next_char(list, idx, ch) -> usize: one past the first slot at or
\* after idx that is Some(ch); list.len() when the scan runs off the end; idx
\* itself when the loop is not entered.
find_next_char(list, idx, ch) ==
    LET hits == {i \in idx..(Len(list) - 1) : At(list, i) = Some(ch)}
    IN  IF hits # {}
        THEN (CHOOSE i \in hits : \A j \in hits : i <= j) + 1
        ELSE IF idx < Len(list) THEN Len(list) ELSE idx

\* Variant of trim_payload with `|` for the `&`: drops every None slot, and
\* the slot after a None slot as well.
trim_payload_or(payload) ==
    LET previous(i) == i > 1 /\ payload[i - 1] = None
        tagged == [i \in 1..Len(payload) |-> << payload[i], previous(i) >>]
        kept == SelectSeq(tagged, LAMBDA t : ~(t[1] = None \/ t[2]))
    IN  [i \in 1..Len(kept) |-> kept[i][1]]

\* Variant of trim_payload that retains every slot.
trim_payload_retain_all(payload) == payload

\* Variant of trim_payload whose `previous` is never reset (`previous |=
\* x.is_none()`): every None slot after the first one is dropped.
trim_payload_sticky(payload) ==
    LET previous(i) == \E j \in 1..(i - 1) : payload[j] = None
        tagged == [i \in 1..Len(payload) |-> << payload[i], previous(i) >>]
        kept == SelectSeq(tagged, LAMBDA t : ~(t[1] = None /\ t[2]))
    IN  [i \in 1..Len(kept) |-> kept[i][1]]

\* Self::trim_payload: retain(|&x| !(x.is_none() & replace(&mut previous, x.is_none())))
\* `previous` is is_none() of the element visited just before (false at first).
trim_payload(payload) ==
    LET previous(i) == i > 1 /\ payload[i - 1] = None
        tagged == [i \in 1..Len(payload) |-> << payload[i], previous(i) >>]
        kept == SelectSeq(tagged, LAMBDA t : ~(t[1] = None /\ t[2]))
    IN  [i \in 1..Len(kept) |-> kept[i][1]]

(***************************************************************************)
(* Variant of the phases below with the third call a copy of the second   *)
(* left unedited: stride 127 runs twice, stride 63 never.                  *)
(***************************************************************************)
Phases_copied_call ==
    << [fn |-> "increment_by_offset", a |-> 255, b |-> 0],
       [fn |-> "increment_by_offset", a |-> 127, b |-> 0],
       [fn |-> "increment_by_offset", a |-> 127, b |-> 0],
       [fn |-> "increment_by_offset", a |-> 31, b |-> 0],
       [fn |-> "increment_by_offset", a |-> 0, b |-> 0],
       [fn |-> "find_next_char", a |-> 46, b |-> 0],
       [fn |-> "find_next_char", a |-> 59, b |-> 0],
       [fn |-> "find_next_char", a |-> 44, b |-> 0],
       [fn |-> "find_next_char", a |-> 10, b |-> 0],
       [fn |-> "find_next_char", a |-> 13, b |-> 0],
       [fn |-> "find_next_char", a |-> 35, b |-> 0],
       [fn |-> "find_next_char", a |-> 32, b |-> 0],
       [fn |-> "closures", a |-> 40, b |-> 41],
       [fn |-> "closures", a |-> 91, b |-> 93],
       [fn |-> "closures", a |-> 123, b |-> 125],
       [fn |-> "closures", a |-> 60, b |-> 62],
       [fn |-> "closures", a |-> 39, b |-> 39],
       [fn |-> "closures", a |-> 34, b |-> 34] >>

(***************************************************************************)
(* The phases of perform, in call order (lines 97-278): the function      *)
(* called, and its u8 arguments.                                            *)
(***************************************************************************)
Phases ==
    << [fn |-> "increment_by_offset", a |-> 255, b |-> 0],
       [fn |-> "increment_by_offset", a |-> 127, b |-> 0],
       [fn |-> "increment_by_offset", a |-> 63, b |-> 0],
       [fn |-> "increment_by_offset", a |-> 31, b |-> 0],
       [fn |-> "increment_by_offset", a |-> 0, b |-> 0],
       [fn |-> "find_next_char", a |-> 46, b |-> 0],
       [fn |-> "find_next_char", a |-> 59, b |-> 0],
       [fn |-> "find_next_char", a |-> 44, b |-> 0],
       [fn |-> "find_next_char", a |-> 10, b |-> 0],
       [fn |-> "find_next_char", a |-> 13, b |-> 0],
       [fn |-> "find_next_char", a |-> 35, b |-> 0],
       [fn |-> "find_next_char", a |-> 32, b |-> 0],
       [fn |-> "closures", a |-> 40, b |-> 41],
       [fn |-> "closures", a |-> 91, b |-> 93],
       [fn |-> "closures", a |-> 123, b |-> 125],
       [fn |-> "closures", a |-> 60, b |-> 62],
       [fn |-> "closures", a |-> 39, b |-> 39],
       [fn |-> "closures", a |-> 34, b |-> 34] >>

NumPhases == Len(Phases)

\* Variant of the call below that calls find_next_char whatever function was
\* passed.
find_next_index_char_only(fn, list, idx, ch) == find_next_char(list, idx, ch)

\* find_next_index(&payload, start, split_char) through the fn pointer.
find_next_index(fn, list, idx, ch) ==
    IF fn = "increment_by_offset"
    THEN increment_by_offset(list, idx, ch)
    ELSE find_next_char(list, idx, ch)

\* Variant of the scan below that stops at the first slot that is Some of any
\* byte (`payload[index].is_some()`).
find_opening_is_some(list, idx, ch) ==
    LET hits == {i \in idx..(Len(list) - 1) : At(list, i) # None}
    IN  IF hits # {}
        THEN CHOOSE i \in hits : \A j \in hits : i <= j
        ELSE IF idx < Len(list) THEN Len(list) ELSE idx

\* Lines 422-427: advance index to the first slot that is Some(opening_char),
\* or to payload.len().
find_opening(list, idx, ch) ==
    LET hits == {i \in idx..(Len(list) - 1) : At(list, i) = Some(ch)}
    IN  IF hits # {}
        THEN CHOOSE i \in hits : \A j \in hits : i <= j
        ELSE IF idx < Len(list) THEN Len(list) ELSE idx

\* Variant of the candidate below with payload[end + 1..] for payload[end..].
Candidate_skip_end(list, s, e) ==
    FilterUnwrap(Slice(list, 0, s))
        \o FilterUnwrap(IF e < Len(list) THEN Slice(list, e + 1, Len(list))
                        ELSE << >>)

\* The candidate of lines 378-390 and 433-445: payload[..start] and
\* payload[end..], each filtered and unwrapped.
Candidate(list, s, e) ==
    FilterUnwrap(Slice(list, 0, s)) \o FilterUnwrap(Slice(list, e, Len(list)))

\* Variant of the loop below over payload[start + 1..end]: the first slot of
\* the range is left as it is.
SetNone_skip_first(list, s, e) ==
    [i \in 1..Len(list) |-> IF s + 1 < i /\ i <= e THEN None ELSE list[i]]

\* Variant of the loop below over payload[start..=end]: one slot too many.
SetNone_inclusive(list, s, e) ==
    [i \in 1..Len(list) |-> IF s < i /\ i <= e + 1 THEN None ELSE list[i]]

\* for item in &mut payload[start..end] { *item = None; }
SetNone(list, s, e) ==
    [i \in 1..Len(list) |-> IF s < i /\ i <= e THEN None ELSE list[i]]

(***************************************************************************)
(* The target and its map observer (outside the stage): a stub program    *)
(* with four coverage-map entries.  Coverage(input) is the set of map     *)
(* indexes a run on input sets.                                            *)
(***************************************************************************)
Contains(bs, b) == \E i \in 1..Len(bs) : bs[i] = b

MapIndexes == 0..3

Coverage(bs) ==
    {i \in MapIndexes :
        \/ i = 0 /\ Contains(bs, 65)
        \/ i = 1 /\ Contains(bs, 40)
        \/ i = 2 /\ Len(bs) % 2 = 1
        \/ i = 3 /\ Len(bs) >= MAX_GENERALIZED_LEN}

\* MapObserver::how_many_set(novelties) on a map with the entries of `set` set.
how_many_set(set, nov) == Cardinality({i \in nov : i \in set})

(***************************************************************************)
(* Results of perform and of verify_input.                                 *)
(***************************************************************************)
Result(kind, what, idx) == [kind |-> kind, what |-> what, idx |-> idx]
NoResult == Result("None", "", 0)
Ok == Result("Ok", "", 0)
\* Variant of the error below that names testcase #0 whatever the index.
MetadataNotFound_unindexed(idx) == Result("KeyNotFound", "MapNoveltiesMetadata", 0)
\* Error::KeyNotFound(format!("MapNoveltiesMetadata ... not found in testcase #{}", corpus_idx))
MetadataNotFound(idx) == Result("KeyNotFound", "MapNoveltiesMetadata", idx)
\* Error::KeyNotFound("MapObserver not found")
ObserverNotFound == Result("KeyNotFound", "MapObserver not found", 0)
\* An error a hook or the executor returned, propagated by `?`.
Propagated(what) == Result("Err", what, 0)

(***************************************************************************)
(* Variant of verify_input, below, with line 338 moved before line 335:   *)
(* the execution is counted before run_target is called.                   *)
(***************************************************************************)
verify_input_count_first(nov, input, fault, cov, observer) ==
    IF fault = "pre_exec_all"
    THEN [ret |-> "err", err |-> Propagated(fault), input |-> input,
          executions |-> 0, log |-> << "pre_exec_all" >>]
    ELSE IF fault = "run_target"
    THEN [ret |-> "err", err |-> Propagated(fault), input |-> input,
          executions |-> 1,
          log |-> << "pre_exec_all", "executions", "run_target" >>]
    ELSE IF fault = "post_exec_all"
    THEN [ret |-> "err", err |-> Propagated(fault), input |-> input,
          executions |-> 1,
          log |-> << "pre_exec_all", "executions", "run_target",
                     "post_exec_all" >>]
    ELSE IF ~observer
    THEN [ret |-> "err", err |-> ObserverNotFound, input |-> input,
          executions |-> 1,
          log |-> << "pre_exec_all", "executions", "run_target",
                     "post_exec_all", "match_name" >>]
    ELSE [ret |-> IF how_many_set(cov, nov) = Cardinality(nov)
                  THEN "true" ELSE "false",
          err |-> NoResult, input |-> input, executions |-> 1,
          log |-> << "pre_exec_all", "executions", "run_target",
                     "post_exec_all", "match_name", "how_many_set" >>]

(***************************************************************************)
(* Variant of verify_input, below, with lines 340-342 moved before line    *)
(* 335: post_exec_all is called before the target is run.                  *)
(***************************************************************************)
verify_input_post_first(nov, input, fault, cov, observer) ==
    IF fault = "pre_exec_all"
    THEN [ret |-> "err", err |-> Propagated(fault), input |-> input,
          executions |-> 0, log |-> << "pre_exec_all" >>]
    ELSE IF fault = "post_exec_all"
    THEN [ret |-> "err", err |-> Propagated(fault), input |-> input,
          executions |-> 0, log |-> << "pre_exec_all", "post_exec_all" >>]
    ELSE IF fault = "run_target"
    THEN [ret |-> "err", err |-> Propagated(fault), input |-> input,
          executions |-> 0,
          log |-> << "pre_exec_all", "post_exec_all", "run_target" >>]
    ELSE IF ~observer
    THEN [ret |-> "err", err |-> ObserverNotFound, input |-> input,
          executions |-> 1,
          log |-> << "pre_exec_all", "post_exec_all", "run_target",
                     "executions", "match_name" >>]
    ELSE [ret |-> IF how_many_set(cov, nov) = Cardinality(nov)
                  THEN "true" ELSE "false",
          err |-> NoResult, input |-> input, executions |-> 1,
          log |-> << "pre_exec_all", "post_exec_all", "run_target",
                     "executions", "match_name", "how_many_set" >>]

(***************************************************************************)
(* fn verify_input (lines 318-351) on `input`.  fault names the call that *)
(* returns an error ("none": no call does), cov is the map the run leaves, *)
(* observer whether match_name finds the map observer.  The value is what *)
(* the call returns (ret: "true", "false" or "err"), by how much it raised *)
(* state.executions, and the calls it made, in order.                      *)
(***************************************************************************)
verify_input(nov, input, fault, cov, observer) ==
    IF fault = "pre_exec_all"
    THEN [ret |-> "err", err |-> Propagated(fault), input |-> input,
          executions |-> 0, log |-> << "pre_exec_all" >>]
    ELSE IF fault = "run_target"
    THEN [ret |-> "err", err |-> Propagated(fault), input |-> input,
          executions |-> 0, log |-> << "pre_exec_all", "run_target" >>]
    ELSE IF fault = "post_exec_all"
    THEN [ret |-> "err", err |-> Propagated(fault), input |-> input,
          executions |-> 1,
          log |-> << "pre_exec_all", "run_target", "executions",
                     "post_exec_all" >>]
    ELSE IF ~observer
    THEN [ret |-> "err", err |-> ObserverNotFound, input |-> input,
          executions |-> 1,
          log |-> << "pre_exec_all", "run_target", "executions",
                     "post_exec_all", "match_name" >>]
    ELSE [ret |-> IF how_many_set(cov, nov) = Cardinality(nov)
                  THEN "true" ELSE "false",
          err |-> NoResult, input |-> input, executions |-> 1,
          log |-> << "pre_exec_all", "run_target", "executions",
                     "post_exec_all", "match_name", "how_many_set" >>]

\* Input::generalized_from_options(&payload): the slots as given.
generalized_from_options(list) == Generalized(list)

(***************************************************************************)
(* State.                                                                  *)
(***************************************************************************)
VARIABLES
    \* The corpus entry perform is called on, and its index in the corpus.
    corpus_idx,     \* the corpus index of the entry
    bytes,          \* input.bytes()
    generalized,    \* input.generalized(): NoGeneralized or Generalized(slots)
    hasMeta,        \* the testcase carries MapNoveltiesMetadata
    novelties,      \* the indexes of that metadata
    persisted,      \* the generalized form store_input last wrote, if any
    \* The executor and its observers.
    flaky,          \* the target's coverage is not reproducible
    mayFail,        \* the calls of the executor that can return an error
    hasObserver,    \* the executor has an observer named map_observer_name
    \* The fuzzer state.
    executions,     \* *state.executions_mut()
    \* perform's position and locals.
    pc, phase, payload, start, end, index,
    \* The result of the last call of perform that returned.
    result,
    \* History: calls of perform so far, executions when the current call
    \* began, verify_input calls of the current call and the last of them,
    \* probes of the current call that returned true inside a phase,
    \* verify_input calls of the current find_gaps_in_closures call,
    \* verify_input calls of the current call when the current phase began,
    \* the payload the current phase began on.
    calls, execsAtCall, probes, probe, commits, closureProbes,
    phaseProbes, phasePayload

vars == << corpus_idx, bytes, generalized, hasMeta, novelties, persisted,
           flaky, mayFail, hasObserver, executions,
           pc, phase, payload, start, end, index, result,
           calls, execsAtCall, probes, probe, commits, closureProbes,
           phaseProbes, phasePayload >>

entryVars == << corpus_idx, bytes, hasMeta, novelties >>
envVars == << flaky, mayFail, hasObserver >>
phaseVars == << phaseProbes, phasePayload >>

Hooks == {"pre_exec_all", "run_target", "post_exec_all"}
NoProbe == [ret |-> "none", err |-> NoResult, input |-> << >>,
            executions |-> 0, log |-> << >>]

(***************************************************************************)
(* Initial states: a corpus entry, an executor, a target.                  *)
(***************************************************************************)
Alphabet == {34, 40, 41, 46, 65}

InputsUpTo(n) == UNION {[1..k -> Alphabet] : k \in 0..n}

\* The inputs of the end-to-end scenarios: "AAAA", "xAx", "a.b.c.A",
\* "(hello)A".
Scenarios ==
    { << 65, 65, 65, 65 >>,
      << 120, 65, 120 >>,
      << 97, 46, 98, 46, 99, 46, 65 >>,
      << 40, 104, 101, 108, 108, 111, 41, 65 >> }

Config(idx, bs, gen, meta, nov, fl, mf, obs) ==
    [corpus_idx |-> idx, bytes |-> bs, generalized |-> gen, hasMeta |-> meta,
     novelties |-> nov, flaky |-> fl, mayFail |-> mf, hasObserver |-> obs]

\* A reproducible target: the novelties are map entries the input sets.
StableConfigs ==
    {Config(0, bs, NoGeneralized, TRUE, nov, FALSE, Hooks, TRUE) :
        bs \in InputsUpTo(MaxLen) \cup Scenarios, nov \in SUBSET MapIndexes} 

\* A target whose coverage is not reproducible.
FlakyConfigs ==
    {Config(0, bs, NoGeneralized, TRUE, {0}, TRUE, {}, TRUE) :
        bs \in InputsUpTo(MaxFlakyLen)}

\* A stage built with the name of an observer the executor does not have.
NoObserverConfigs ==
    {Config(0, bs, NoGeneralized, TRUE, {0}, FALSE, Hooks, FALSE) :
        bs \in {<< 65 >>, << 40, 65, 41 >>}}

\* An entry whose input already carries a generalized form.
GeneralizedConfigs ==
    {Config(0, bs, Generalized(gen), meta, IF meta THEN {0} ELSE {}, FALSE, Hooks, TRUE) :
        bs \in {<< 65 >>, << 46, 65 >>},
        gen \in {<< Some(65) >>, << None, Some(65) >>},
        meta \in BOOLEAN}

\* An entry whose testcase has no MapNoveltiesMetadata.
NoMetaConfigs ==
    {Config(idx, bs, NoGeneralized, FALSE, {}, FALSE, Hooks, TRUE) :
        idx \in {0, 1}, bs \in {<< >>, << 65 >>, << 40, 65, 41 >>}}

\* An input longer than the longest stride: 'A' and 256 bytes 'x', on a
\* target that needs the 'A' and an odd number of bytes; no call fails.
StrideInput == [i \in 1..257 |-> IF i = 1 THEN 65 ELSE 120]

StrideConfigs ==
    {Config(0, StrideInput, NoGeneralized, TRUE, {0, 2}, FALSE, {}, TRUE)}

Configs ==
    {c \in StableConfigs : c.novelties # {} /\ c.novelties \subseteq Coverage(c.bytes)}
        \cup FlakyConfigs \cup NoObserverConfigs \cup GeneralizedConfigs
        \cup NoMetaConfigs

InitFrom(c) ==
    /\ corpus_idx = c.corpus_idx
    /\ bytes = c.bytes
    /\ generalized = c.generalized
    /\ hasMeta = c.hasMeta
    /\ novelties = c.novelties
    /\ persisted = NoGeneralized
    /\ flaky = c.flaky
    /\ mayFail = c.mayFail
    /\ hasObserver = c.hasObserver
    /\ executions = 0
    /\ pc = "idle"
    /\ phase = 0
    /\ payload = << >>
    /\ start = 0
    /\ end = 0
    /\ index = 0
    /\ result = NoResult
    /\ calls = 0
    /\ execsAtCall = 0
    /\ probes = 0
    /\ probe = NoProbe
    /\ commits = 0
    /\ closureProbes = 0
    /\ phaseProbes = 0
    /\ phasePayload = << >>

Init == \E c \in Configs : InitFrom(c)

(***************************************************************************)
(* Steps of perform.                                                       *)
(***************************************************************************)
\* The calls of verify_input that may return an error, and the maps a run of
\* the target on `input` may leave.
Faults == {"none"} \cup mayFail
Observed(input) == IF flaky THEN {{}, MapIndexes} ELSE {Coverage(input)}

\* perform returns r; its locals are gone.
Return(r) ==
    /\ pc' = "idle"
    /\ result' = r
    /\ phase' = 0
    /\ payload' = << >>
    /\ start' = 0
    /\ end' = 0
    /\ index' = 0
    /\ closureProbes' = 0
    /\ phaseProbes' = 0
    /\ phasePayload' = << >>

\* verify_input returned v.
Account(v) ==
    /\ executions' = executions + v.executions
    /\ probes' = probes + 1
    /\ probe' = v

\* The next call of lines 97-278 begins on payload pl, or line 280 is reached.
EnterPhase(p, pl) ==
    /\ phase' = p
    /\ payload' = pl
    /\ start' = 0
    /\ end' = 0
    /\ index' = 0
    /\ closureProbes' = 0
    /\ phaseProbes' = IF pc = "baseline" THEN probes + 1 ELSE probes
    /\ phasePayload' = pl
    /\ pc' = IF p > NumPhases THEN "store"
             ELSE IF Phases[p].fn = "closures" THEN "closures"
             ELSE "find_gaps"

\* Variant of line 77 with the test inverted: is_none() for is_some().
already_generalized_inverted(gen) == gen = NoGeneralized

\* Line 77: input.generalized().is_some()
already_generalized(gen) == gen # NoGeneralized

\* Variant of line 280 that measures the bytes the payload keeps, not its
\* slots.
fits_materialized(list) == Len(FilterUnwrap(list)) <= MAX_GENERALIZED_LEN

\* Line 280: payload.len() <= MAX_GENERALIZED_LEN
fits(list) == Len(list) <= MAX_GENERALIZED_LEN

\* Lines 71-90: the caller invokes perform; the entry is loaded, an input
\* with a generalized form returns at once, missing metadata is an error.
\* A caller that got an error from a stage does not run the stage again.
perform_entry ==
    /\ pc = "idle"
    /\ calls < MaxCalls
    /\ result.kind \in {"None", "Ok"}
    /\ calls' = calls + 1
    /\ execsAtCall' = executions
    /\ probes' = 0
    /\ probe' = NoProbe
    /\ commits' = 0
    /\ IF already_generalized(generalized)
       THEN Return(Ok)
       ELSE IF ~hasMeta
       THEN Return(MetadataNotFound(corpus_idx))
       ELSE /\ pc' = "baseline"
            /\ result' = NoResult
            /\ payload' = ToPayload(bytes)
            /\ UNCHANGED << phase, start, end, index, closureProbes,
                            phaseVars >>
    /\ UNCHANGED << entryVars, envVars, generalized, persisted, executions >>

\* Variant of lines 92-95 without the `!`: returns Ok when the baseline probe
\* returns true, and goes on to the phases when it returns false.
perform_baseline_negated ==
    /\ pc = "baseline"
    /\ \E fault \in Faults, cov \in Observed(bytes) :
        LET v == verify_input(novelties, bytes, fault, cov, hasObserver)
        IN  /\ Account(v)
            /\ IF v.ret = "err" THEN Return(v.err)
               ELSE IF v.ret = "true" THEN Return(Ok)
               ELSE /\ EnterPhase(1, payload)
                    /\ UNCHANGED result
    /\ UNCHANGED << entryVars, envVars, generalized, persisted, calls,
                    execsAtCall, commits >>

\* Lines 92-95: verify_input on the original input.
perform_baseline ==
    /\ pc = "baseline"
    /\ \E fault \in Faults, cov \in Observed(bytes) :
        LET v == verify_input(novelties, bytes, fault, cov, hasObserver)
        IN  /\ Account(v)
            /\ IF v.ret = "err" THEN Return(v.err)
               ELSE IF v.ret = "false" THEN Return(Ok)
               ELSE /\ EnterPhase(1, payload)
                    /\ UNCHANGED result
    /\ UNCHANGED << entryVars, envVars, generalized, persisted, calls,
                    execsAtCall, commits >>

\* Variant of lines 373-399 with `.unwrap_or(false)` for the `?` of line 392:
\* an error of verify_input counts as a rejection and the loop goes on.
find_gaps_iter_unwrap_or ==
    /\ pc = "find_gaps"
    /\ start < Len(payload)
    /\ LET next == find_next_index(Phases[phase].fn, payload, start, Phases[phase].a)
           e == IF next > Len(payload) THEN Len(payload) ELSE next
           candidate == Candidate(payload, start, e)
       IN  \E fault \in Faults, cov \in Observed(candidate) :
            LET v == verify_input(novelties, candidate, fault, cov, hasObserver)
            IN  /\ Account(v)
                /\ payload' = IF v.ret = "true"
                              THEN SetNone(payload, start, e)
                              ELSE payload
                /\ start' = e
                /\ end' = e
                /\ UNCHANGED << pc, phase, index, result, closureProbes,
                                phaseVars >>
                /\ commits' = IF v.ret = "true" THEN commits + 1 ELSE commits
    /\ UNCHANGED << entryVars, envVars, generalized, persisted, calls, execsAtCall >>

\* Variant of the iteration below with line 398 inside the `if` of line 392:
\* start moves to end only when the probe returned true.
find_gaps_iter_advance_on_accept ==
    /\ pc = "find_gaps"
    /\ start < Len(payload)
    /\ LET next == find_next_index(Phases[phase].fn, payload, start, Phases[phase].a)
           e == IF next > Len(payload) THEN Len(payload) ELSE next
           candidate == Candidate(payload, start, e)
       IN  \E fault \in Faults, cov \in Observed(candidate) :
            LET v == verify_input(novelties, candidate, fault, cov, hasObserver)
            IN  /\ Account(v)
                /\ IF v.ret = "err" THEN Return(v.err)
                   ELSE /\ payload' = IF v.ret = "true"
                                      THEN SetNone(payload, start, e)
                                      ELSE payload
                        /\ start' = IF v.ret = "true" THEN e ELSE start
                        /\ end' = e
                        /\ UNCHANGED << pc, phase, index, result,
                                        closureProbes, phaseVars >>
                /\ commits' = IF v.ret = "true" THEN commits + 1 ELSE commits
    /\ UNCHANGED << entryVars, envVars, generalized, persisted, calls, execsAtCall >>

\* Lines 373-399: one iteration of the loop of find_gaps.
find_gaps_iter ==
    /\ pc = "find_gaps"
    /\ start < Len(payload)
    /\ LET next == find_next_index(Phases[phase].fn, payload, start, Phases[phase].a)
           e == IF next > Len(payload) THEN Len(payload) ELSE next
           candidate == Candidate(payload, start, e)
       IN  \E fault \in Faults, cov \in Observed(candidate) :
            LET v == verify_input(novelties, candidate, fault, cov, hasObserver)
            IN  /\ Account(v)
                /\ IF v.ret = "err" THEN Return(v.err)
                   ELSE /\ payload' = IF v.ret = "true"
                                      THEN SetNone(payload, start, e)
                                      ELSE payload
                        /\ start' = e
                        /\ end' = e
                        /\ UNCHANGED << pc, phase, index, result,
                                        closureProbes, phaseVars >>
                /\ commits' = IF v.ret = "true" THEN commits + 1 ELSE commits
    /\ UNCHANGED << entryVars, envVars, generalized, persisted, calls, execsAtCall >>

\* Lines 401-402: the loop of find_gaps is over; trim and return.
find_gaps_exit ==
    /\ pc = "find_gaps"
    /\ ~(start < Len(payload))
    /\ EnterPhase(phase + 1, trim_payload(payload))
    /\ UNCHANGED << entryVars, envVars, generalized, persisted, executions,
                    result, calls, execsAtCall, probes, probe, commits >>

\* Variant of the head below whose first iteration is made without the test
\* of line 420 (`loop` with the test at its end).
closures_outer_unguarded ==
    /\ pc = "closures"
    /\ LET i == find_opening(payload, index, Phases[phase].a)
       IN  /\ index' = i
           /\ start' = i
           /\ end' = Len(payload) - 1
           /\ pc' = "closures_inner"
    /\ UNCHANGED << entryVars, envVars, generalized, persisted, executions,
                    phase, payload, result, calls, execsAtCall, probes, probe,
                    commits, closureProbes, phaseVars >>

\* Lines 420-429: the head of an iteration of the outer loop of
\* find_gaps_in_closures, up to the inner loop.
closures_outer ==
    /\ pc = "closures"
    /\ index < Len(payload)
    /\ LET i == find_opening(payload, index, Phases[phase].a)
       IN  /\ index' = i
           /\ start' = i
           /\ end' = Len(payload) - 1
           /\ pc' = "closures_inner"
    /\ UNCHANGED << entryVars, envVars, generalized, persisted, executions,
                    phase, payload, result, calls, execsAtCall, probes, probe,
                    commits, closureProbes, phaseVars >>

\* Lines 431-455: one iteration of the inner loop.
closures_inner ==
    /\ pc = "closures_inner"
    /\ end > start
    /\ IF At(payload, end) = Some(Phases[phase].b)
       THEN /\ closureProbes < MaxClosureProbes
            /\ LET candidate == Candidate(payload, start, end)
               IN  \E fault \in Faults, cov \in Observed(candidate) :
                    LET v == verify_input(novelties, candidate, fault, cov, hasObserver)
                    IN  /\ Account(v)
                        /\ IF v.ret = "err" THEN Return(v.err)
                           ELSE /\ payload' = IF v.ret = "true"
                                              THEN SetNone(payload, start, end)
                                              ELSE payload
                                /\ start' = end
                                /\ end' = end - 1
                                /\ closureProbes' = closureProbes + 1
                                /\ UNCHANGED << pc, phase, index, result,
                                                phaseVars >>
                        /\ commits' = IF v.ret = "true" THEN commits + 1
                                      ELSE commits
       ELSE /\ end' = end - 1
            /\ UNCHANGED << executions, pc, phase, payload, start, index,
                            result, probes, probe, commits, closureProbes,
                            phaseVars >>
    /\ UNCHANGED << entryVars, envVars, generalized, persisted, calls, execsAtCall >>

\* Lines 431 and 456: the test of the inner loop fails; back to the test of
\* the outer loop, with index as it is.
closures_inner_exit ==
    /\ pc = "closures_inner"
    /\ ~(end > start)
    /\ pc' = "closures"
    /\ UNCHANGED << entryVars, envVars, generalized, persisted, executions,
                    phase, payload, start, end, index, result, calls,
                    execsAtCall, probes, probe, commits, closureProbes,
                    phaseVars >>

\* Lines 458-459: the outer loop is over; trim and return.
closures_exit ==
    /\ pc = "closures"
    /\ ~(index < Len(payload))
    /\ EnterPhase(phase + 1, trim_payload(payload))
    /\ UNCHANGED << entryVars, envVars, generalized, persisted, executions,
                    result, calls, execsAtCall, probes, probe, commits >>

\* Lines 280-292: store the payload if it is short enough, and return Ok.
perform_store ==
    /\ pc = "store"
    /\ IF fits(payload)
       THEN /\ generalized' = generalized_from_options(payload)
            /\ persisted' = generalized_from_options(payload)
       ELSE UNCHANGED << generalized, persisted >>
    /\ Return(Ok)
    /\ UNCHANGED << entryVars, envVars, executions, calls, execsAtCall,
                    probes, probe, commits >>

Next ==
    \/ perform_entry
    \/ perform_baseline
    \/ find_gaps_iter
    \/ find_gaps_exit
    \/ closures_outer
    \/ closures_inner
    \/ closures_inner_exit
    \/ closures_exit
    \/ perform_store

Spec == Init /\ [][Next]_vars

(***************************************************************************)
(* Inputs around MAX_GENERALIZED_LEN bytes: n bytes 'A' on a target whose  *)
(* novelty (map entry 3) needs MAX_GENERALIZED_LEN bytes.                  *)
(***************************************************************************)
LongInput(n) == [i \in 1..n |-> 65]

LongLens == {MAX_GENERALIZED_LEN, MAX_GENERALIZED_LEN + 1}

LongConfigs ==
    {Config(0, LongInput(n), NoGeneralized, TRUE, {3}, FALSE, {}, TRUE) :
        n \in LongLens}

\* perform from the call on, on the long inputs.
InitLongRun == \E c \in LongConfigs : InitFrom(c)

SpecLongRun == InitLongRun /\ [][Next]_vars

\* What lines 92-278 do on LongInput(n).  The baseline passes.  A stride
\* phase with offset off probes every chunk of off + 1 bytes; a candidate
\* without a whole chunk has fewer than MAX_GENERALIZED_LEN bytes and is
\* rejected, except that the last chunk of n = MAX_GENERALIZED_LEN + 1 bytes is
\* its one byte, which the first stride phase gaps and the later ones gap
\* again.  No delimiter and no bracket occurs: each delimiter phase probes the
\* empty candidate once, the bracket phases probe nothing.
Chunks(n, off) == (n + off) \div (off + 1)

LongRunProbes(n) ==
    1 + Chunks(n, 255) + Chunks(n, 127) + Chunks(n, 63) + Chunks(n, 31)
      + Chunks(n, 0) + 7

LongRunCommits(n) == IF n > MAX_GENERALIZED_LEN THEN 5 ELSE 0

LongRunPayload(n) ==
    [i \in 1..n |-> IF i > MAX_GENERALIZED_LEN THEN None ELSE 65]

\* The state at line 280 of call number c of perform on LongInput(n), the
\* earlier calls having run to line 280 as well.
AtLongStore(n, c) ==
    /\ corpus_idx = 0
    /\ bytes = LongInput(n)
    /\ generalized = NoGeneralized
    /\ hasMeta = TRUE
    /\ novelties = {3}
    /\ persisted = NoGeneralized
    /\ flaky = FALSE
    /\ mayFail = {}
    /\ hasObserver = TRUE
    /\ executions = c * LongRunProbes(n)
    /\ pc = "store"
    /\ phase = NumPhases + 1
    /\ payload = LongRunPayload(n)
    /\ start = 0
    /\ end = 0
    /\ index = 0
    /\ result = NoResult
    /\ calls = c
    /\ execsAtCall = (c - 1) * LongRunProbes(n)
    /\ probes = LongRunProbes(n)
    /\ probe = verify_input({3}, << >>, "none", Coverage(<< >>), TRUE)
    /\ commits = LongRunCommits(n)
    /\ closureProbes = 0
    /\ phaseProbes = LongRunProbes(n)
    /\ phasePayload = LongRunPayload(n)

\* Every call of perform on a long input that gets to line 280 gets there in
\* the state AtLongStore.  (An invariant of SpecLongRun.)
LongRunArrives ==
    pc = "store" => AtLongStore(Len(bytes), calls)

\* The first call on MAX_GENERALIZED_LEN bytes gets to line 280, and so does
\* every call on one byte more.  (Invariants of SpecLongRun.)
LongRunStoreCalls ==
    pc = "store" /\ Len(bytes) = MAX_GENERALIZED_LEN => calls = 1

\* Line 280 onwards: the short inputs of a few entries from the call on, and
\* the long inputs from line 280 on, in the first call that gets there on
\* MAX_GENERALIZED_LEN bytes and the last call on one byte more.
ShortConfigs ==
    {c \in Configs : c.bytes \in {<< 65 >>, << 40, 65, 41 >>}}

InitStore ==
    \/ \E c \in ShortConfigs : InitFrom(c)
    \/ AtLongStore(MAX_GENERALIZED_LEN, 1)
    \/ AtLongStore(MAX_GENERALIZED_LEN + 1, MaxCalls)

SpecStore == InitStore /\ [][Next]_vars

\* The entries of Spec and the input longer than the longest stride.
InitStride == \E c \in Configs \cup StrideConfigs : InitFrom(c)

SpecStride == InitStride /\ [][Next]_vars

\* The stage runs on one thread that keeps running: a step that can be taken
\* is taken.
FairSpec == Spec /\ WF_vars(Next)

(***************************************************************************)
(* trim_payload on its own.  The payload is any vector of at most          *)
(* MaxTrimLen slots; phasePayload keeps the vector as it was given, calls  *)
(* counts the applications.                                                *)
(***************************************************************************)
TrimSlots == {None, Some(65), Some(46)}

TrimPayloads ==
    UNION {[1..n -> TrimSlots] : n \in 0..MaxTrimLen}

InitTrim ==
    /\ corpus_idx = 0
    /\ bytes = << >>
    /\ generalized = NoGeneralized
    /\ hasMeta = TRUE
    /\ novelties = {}
    /\ persisted = NoGeneralized
    /\ flaky = FALSE
    /\ mayFail = {}
    /\ hasObserver = TRUE
    /\ executions = 0
    /\ pc = "trim"
    /\ phase = 0
    /\ payload \in TrimPayloads
    /\ start = 0
    /\ end = 0
    /\ index = 0
    /\ result = NoResult
    /\ calls = 0
    /\ execsAtCall = 0
    /\ probes = 0
    /\ probe = NoProbe
    /\ commits = 0
    /\ closureProbes = 0
    /\ phaseProbes = 0
    /\ phasePayload = payload

\* Self::trim_payload(&mut payload)
trim_apply ==
    /\ pc = "trim"
    /\ calls < MaxTrims
    /\ payload' = trim_payload(payload)
    /\ calls' = calls + 1
    /\ UNCHANGED << entryVars, envVars, generalized, persisted, executions,
                    pc, phase, start, end, index, result, execsAtCall,
                    probes, probe, commits, closureProbes, phaseVars >>

NextTrim == trim_apply

SpecTrim == InitTrim /\ [][NextTrim]_vars

(***************************************************************************)
(* Vocabulary of the properties.                                           *)
(***************************************************************************)
\* The materialization of a payload: its Some slots in order, None skipped.
Materialization(list) == FilterUnwrap(list)

\* The positions of perform after the baseline probe returned true.
InPhases == pc \in {"find_gaps", "closures", "closures_inner", "store"}

\* A run of the target on bs sets every index of the novelties.
SetsAllNovelties(bs) ==
    how_many_set(Coverage(bs), novelties) = Cardinality(novelties)

StoredSlots == persisted[1]

RECURSIVE IsSubsequence(_, _)
IsSubsequence(a, b) ==
    IF a = << >> THEN TRUE
    ELSE IF b = << >> THEN FALSE
    ELSE IF Head(a) = Head(b) THEN IsSubsequence(Tail(a), Tail(b))
    ELSE IsSubsequence(a, Tail(b))

NoAdjacentGaps(list) ==
    \A i \in 1..(Len(list) - 1) : ~(list[i] = None /\ list[i + 1] = None)

\* A step in which verify_input was called.
ProbeStep == probes' = probes + 1

(***************************************************************************)
(* C1  Coverage preservation.  With a reproducible target, in every state *)
(* of perform after the baseline probe returned true (after each commit,  *)
(* after each trim, at line 280), and for the form that was stored, a run *)
(* of the target on the materialization of the payload sets every index   *)
(* of the novelties.                                                       *)
(***************************************************************************)
C1_CoveragePreserved ==
    ~flaky =>
        /\ InPhases => SetsAllNovelties(Materialization(payload))
        /\ persisted # NoGeneralized =>
                SetsAllNovelties(Materialization(StoredSlots))

\* A form with a committed deletion was stored for a reproducible target.
C1_Witness ==
    /\ ~flaky
    /\ persisted # NoGeneralized
    /\ commits > 0
    /\ Len(Materialization(StoredSlots)) < Len(bytes)

(***************************************************************************)
(* C2  Termination.  With a reproducible target, every call of perform    *)
(* returns (with Ok or with an error).  The model follows at most         *)
(* MaxClosureProbes probes of one find_gaps_in_closures call, so a call   *)
(* that reaches that many is not counted against the property.            *)
(***************************************************************************)
C2_PerformReturns ==
    (~flaky /\ pc # "idle") ~> (pc = "idle" \/ closureProbes = MaxClosureProbes)

(***************************************************************************)
(* C3  Idempotence.  A call of perform on an entry whose input carries a  *)
(* generalized form returns Ok in its first step, makes no verify_input   *)
(* call, leaves state.executions, the input's bytes and its generalized   *)
(* form as they were, and stores nothing.                                  *)
(***************************************************************************)
C3_Idempotent ==
    [][(pc = "idle" /\ calls' = calls + 1 /\ generalized # NoGeneralized) =>
          /\ pc' = "idle"
          /\ result' = Ok
          /\ probes' = 0
          /\ executions' = executions
          /\ bytes' = bytes
          /\ generalized' = generalized
          /\ persisted' = persisted]_vars

\* A second call returned after the first call stored a generalized form.
C3_Witness ==
    /\ calls = 2
    /\ pc = "idle"
    /\ persisted # NoGeneralized
    /\ generalized = persisted
    /\ probes = 0
    /\ result = Ok

(***************************************************************************)
(* C4  Unstable input.  When the baseline probe on the original input     *)
(* returns false, perform returns Ok after exactly one execution, enters  *)
(* no phase, and the entry has no generalized form and is not stored.     *)
(***************************************************************************)
C4_UnstableBaseline ==
    [][(pc = "baseline" /\ ProbeStep /\ probe'.ret = "false") =>
          /\ pc' = "idle"
          /\ result' = Ok
          /\ phase' = 0
          /\ probes' = 1
          /\ executions' = execsAtCall + 1
          /\ bytes' = bytes
          /\ generalized' = NoGeneralized
          /\ persisted' = persisted]_vars

\* perform returned after a baseline probe that returned false.
C4_Witness ==
    /\ pc = "idle"
    /\ calls > 0
    /\ probes = 1
    /\ probe.ret = "false"
    /\ result = Ok
    /\ generalized = NoGeneralized

(***************************************************************************)
(* C5  Missing metadata.                                                   *)
(* As claimed: a call of perform on an entry without MapNoveltiesMetadata *)
(* fails with the KeyNotFound error naming the corpus index, with no      *)
(* execution and no change of the entry, also when the input carries a    *)
(* generalized form.                                                       *)
(***************************************************************************)
C5_MissingMetadataAlways ==
    [][(pc = "idle" /\ calls' = calls + 1 /\ ~hasMeta) =>
          /\ result'.kind = "KeyNotFound"
          /\ result'.what = "MapNoveltiesMetadata"
          /\ result'.idx = corpus_idx
          /\ pc' = "idle"
          /\ probes' = 0
          /\ executions' = executions
          /\ generalized' = generalized
          /\ persisted' = persisted]_vars

(***************************************************************************)
(* C5, amended.  The generalized form is looked at first (line 77), the   *)
(* metadata second (line 83): a call on an entry without the metadata     *)
(* whose input carries no generalized form fails with the KeyNotFound     *)
(* error naming the corpus index, with no execution and no change of the  *)
(* entry; when the input carries a generalized form the call returns Ok.  *)
(***************************************************************************)
C5_MissingMetadata ==
    [][(pc = "idle" /\ calls' = calls + 1 /\ ~hasMeta) =>
          /\ IF generalized = NoGeneralized
             THEN /\ result'.kind = "KeyNotFound"
                  /\ result'.what = "MapNoveltiesMetadata"
                  /\ result'.idx = corpus_idx
             ELSE result' = Ok
          /\ pc' = "idle"
          /\ probes' = 0
          /\ executions' = executions
          /\ bytes' = bytes
          /\ generalized' = generalized
          /\ persisted' = persisted]_vars

\* perform failed on the entry at corpus index 1, which has no metadata.
C5_Witness ==
    /\ ~hasMeta
    /\ corpus_idx = 1
    /\ calls = 1
    /\ result = MetadataNotFound(1)
    /\ executions = 0

(***************************************************************************)
(* C6  No partial persistence.  When a verify_input call (the baseline's  *)
(* or a phase's) returns an error, perform returns that error in the same *)
(* step, its payload is dropped, and the entry has no generalized form    *)
(* and nothing was stored, whatever had been committed before.            *)
(***************************************************************************)
C6_NoPartialPersistence ==
    /\ [][(ProbeStep /\ probe'.ret = "err") =>
            /\ pc' = "idle"
            /\ result' = probe'.err
            /\ payload' = << >>
            /\ generalized' = NoGeneralized
            /\ persisted' = NoGeneralized]_vars
    /\ [](result.kind \in {"Err", "KeyNotFound"} =>
            /\ pc = "idle"
            /\ generalized = NoGeneralized
            /\ persisted = NoGeneralized)

\* perform returned a hook's error after deletions had been committed.
C6_Witness ==
    /\ pc = "idle"
    /\ result.kind = "Err"
    /\ probe.ret = "err"
    /\ commits > 0
    /\ generalized = NoGeneralized

(***************************************************************************)
(* C7  Size ceiling.  At line 280, after the last phase, the generalized  *)
(* form is installed and stored exactly when the payload has at most      *)
(* MAX_GENERALIZED_LEN slots (None slots counted); what is installed is   *)
(* the payload, slot for slot; a longer payload leaves the entry as it    *)
(* was; perform returns Ok either way.                                     *)
(***************************************************************************)
C7_SizeCeiling ==
    [][pc = "store" =>
          /\ pc' = "idle"
          /\ result' = Ok
          /\ bytes' = bytes
          /\ IF Len(payload) <= MAX_GENERALIZED_LEN
             THEN /\ generalized' = Generalized(payload)
                  /\ persisted' = Generalized(payload)
             ELSE /\ generalized' = generalized
                  /\ persisted' = persisted]_vars

\* perform returned Ok with a payload of more than MAX_GENERALIZED_LEN slots,
\* one of them None, whose materialization would have fitted.
C7_Witness ==
    /\ pc = "idle"
    /\ result = Ok
    /\ Len(bytes) = MAX_GENERALIZED_LEN + 1
    /\ probes = LongRunProbes(MAX_GENERALIZED_LEN + 1)
    /\ commits = LongRunCommits(MAX_GENERALIZED_LEN + 1)
    /\ generalized = NoGeneralized
    /\ persisted = NoGeneralized

(***************************************************************************)
(* C8  Execution accounting.                                               *)
(* As claimed: in every run of perform, aborted runs included,            *)
(* state.executions has grown by the number of verify_input calls.        *)
(***************************************************************************)
C8_OnePerProbe == executions - execsAtCall = probes

(***************************************************************************)
(* C8, amended.  verify_input raises state.executions by one after        *)
(* run_target returned without error (line 338), also when post_exec_all  *)
(* or the observer lookup then fails; a call that pre_exec_all or         *)
(* run_target aborts leaves the counter as it was.  So the counter has    *)
(* grown by the number of verify_input calls, less one when the run was   *)
(* aborted by pre_exec_all or run_target; and it changes in no other step. *)
(***************************************************************************)
AbortedBeforeCount ==
    result \in {Propagated("pre_exec_all"), Propagated("run_target")}

C8_ExecutionAccounting ==
    /\ [](executions - execsAtCall =
            IF AbortedBeforeCount THEN probes - 1 ELSE probes)
    /\ [][executions' # executions =>
            ProbeStep /\ executions' = executions + 1]_vars

\* A run aborted by pre_exec_all after some probes: one probe not counted.
C8_Witness ==
    /\ result = Propagated("pre_exec_all")
    /\ probes > 2
    /\ executions - execsAtCall = probes - 1

(***************************************************************************)
(* C9  Monotone shrinkage.  While perform runs, the materialization of    *)
(* the payload is a subsequence of the input's bytes and never gets       *)
(* longer; within a phase the payload keeps its length and a slot only    *)
(* changes from Some to None; a trim removes None slots only; the         *)
(* materialization that is stored is no longer than the input.            *)
(***************************************************************************)
C9_MonotoneShrinkage ==
    /\ [](pc # "idle" => IsSubsequence(Materialization(payload), bytes))
    /\ [](persisted # NoGeneralized =>
            /\ IsSubsequence(Materialization(StoredSlots), bytes)
            /\ Len(Materialization(StoredSlots)) <= Len(bytes))
    /\ [][(InPhases /\ pc' # "idle") =>
            /\ Len(Materialization(payload')) <= Len(Materialization(payload))
            /\ IF phase' = phase
               THEN /\ Len(payload') = Len(payload)
                    /\ \A i \in 1..Len(payload) :
                          payload'[i] = payload[i] \/ payload'[i] = None
               ELSE /\ Materialization(payload') = Materialization(payload)
                    /\ Len(payload') <= Len(payload)]_vars

\* At line 280 with some, not all, of the bytes deleted, after a trim that
\* removed slots.
C9_Witness ==
    /\ pc = "store"
    /\ Len(Materialization(payload)) > 0
    /\ Len(Materialization(payload)) < Len(bytes)
    /\ Len(payload) < Len(bytes)

(***************************************************************************)
(* C10  Post-trim compactness.  When a phase ends (any of the 18), the    *)
(* payload its trim leaves has no two adjacent None slots; nor has the    *)
(* generalized form that is stored.                                        *)
(***************************************************************************)
C10_PostTrimCompact ==
    /\ [][(InPhases /\ phase' # phase /\ pc' # "idle") =>
            NoAdjacentGaps(payload')]_vars
    /\ [](pc = "store" => NoAdjacentGaps(payload))
    /\ [](persisted # NoGeneralized => NoAdjacentGaps(StoredSlots))

\* A phase has ended whose trim removed at least two slots, and a None
\* slot is left.
C10_Witness ==
    /\ InPhases
    /\ phase > 1
    /\ start = 0 /\ index = 0 /\ end = 0
    /\ Len(payload) + 2 <= Len(bytes)
    /\ \E i \in 1..Len(payload) : payload[i] = None

(***************************************************************************)
(* C11  Phase order.  After a baseline probe that returned true, perform  *)
(* runs stride 255, 127, 63, 31, 0, then split on '.', ';', ',', LF, CR,   *)
(* '#', space, then brackets (), [], {}, <>, '' and "", in this order:    *)
(* the first phase begins on the input's bytes, each later phase on the   *)
(* trimmed payload of the phase before, the phase number only ever goes   *)
(* up by one, line 280 is reached after the last phase only, and the      *)
(* generalized form is stored at line 280 only.                            *)
(***************************************************************************)
StrideOrder == << 255, 127, 63, 31, 0 >>
SplitOrder == << 46, 59, 44, 10, 13, 35, 32 >>
BracketOrder == << << 40, 41 >>, << 91, 93 >>, << 123, 125 >>, << 60, 62 >>,
                   << 39, 39 >>, << 34, 34 >> >>
LastPhase == Len(StrideOrder) + Len(SplitOrder) + Len(BracketOrder)

\* The call in progress is the one the order has at place p.
RunsCallOfPlace(p) ==
    IF p <= Len(StrideOrder)
    THEN /\ pc = "find_gaps"
         /\ Phases[p].fn = "increment_by_offset"
         /\ Phases[p].a = StrideOrder[p]
    ELSE IF p <= Len(StrideOrder) + Len(SplitOrder)
    THEN /\ pc = "find_gaps"
         /\ Phases[p].fn = "find_next_char"
         /\ Phases[p].a = SplitOrder[p - Len(StrideOrder)]
    ELSE /\ pc \in {"closures", "closures_inner"}
         /\ Phases[p].fn = "closures"
         /\ << Phases[p].a, Phases[p].b >> =
                BracketOrder[p - Len(StrideOrder) - Len(SplitOrder)]

C11_PhaseOrder ==
    /\ [](InPhases =>
            /\ phase \in 1..(LastPhase + 1)
            /\ (pc = "store") = (phase = LastPhase + 1)
            /\ phase <= LastPhase => RunsCallOfPlace(phase))
    /\ [][(pc = "baseline" /\ pc' # "idle") =>
            /\ phase' = 1
            /\ payload' = [i \in 1..Len(bytes) |-> Some(bytes[i])]]_vars
    /\ [][(InPhases /\ pc' # "idle") =>
            /\ phase' \in {phase, phase + 1}
            /\ phase' = phase + 1 =>
                    /\ payload' = trim_payload(payload)
                    /\ start' = 0]_vars
    /\ [][(generalized' # generalized \/ persisted' # persisted) =>
            pc = "store" /\ phase = LastPhase + 1]_vars

\* Line 280 was reached through all the phases, some of which committed
\* deletions.
C11_Witness ==
    /\ pc = "store"
    /\ phase = LastPhase + 1
    /\ commits > 1
    /\ probes > LastPhase

(***************************************************************************)
(* C12  Stub-target scenarios.  With the novelties {0}, an entry set by   *)
(* every input that contains the byte 'A', a reproducible target and an   *)
(* input that contains 'A' (all inputs of the alphabet up to MaxLen bytes, *)
(* and "AAAA", "xAx", "a.b.c.A"): a call of perform returns Ok unless a   *)
(* probe returned an error; from the end of stride(0) on, the payload     *)
(* materializes to "A"; and when perform has returned Ok a generalized    *)
(* form is stored whose materialization is "A".                            *)
(***************************************************************************)
OnStubTargetA ==
    /\ hasMeta
    /\ hasObserver
    /\ ~flaky
    /\ novelties = {0}
    /\ \E i \in 1..Len(bytes) : bytes[i] = 65

C12_StubScenarios ==
    /\ (OnStubTargetA /\ InPhases /\ phase > Len(StrideOrder)) =>
            Materialization(payload) = << 65 >>
    /\ (OnStubTargetA /\ pc = "idle" /\ calls > 0 /\ generalized = persisted) =>
            /\ result = Ok \/ (probe.ret = "err" /\ result = probe.err)
            /\ result = Ok =>
                    /\ persisted # NoGeneralized
                    /\ Materialization(StoredSlots) = << 65 >>

\* perform returned Ok on "a.b.c.A" and stored a form that materializes to
\* "A".
C12_Witness ==
    /\ OnStubTargetA
    /\ bytes = << 97, 46, 98, 46, 99, 46, 65 >>
    /\ pc = "idle"
    /\ result = Ok
    /\ generalized = persisted
    /\ persisted # NoGeneralized
    /\ Materialization(StoredSlots) = << 65 >>

(***************************************************************************)
(* C13  Bracket scenario, input "(hello)A", novelties {0} set by every    *)
(* input that contains 'A'.                                                *)
(* As claimed: the form stored at the end materializes to ")A".           *)
(***************************************************************************)
OnBracketScenario ==
    /\ OnStubTargetA
    /\ bytes = << 40, 104, 101, 108, 108, 111, 41, 65 >>

C13_StoresClosingAndA ==
    (OnBracketScenario /\ pc = "idle" /\ calls > 0 /\ result = Ok) =>
        /\ persisted # NoGeneralized
        /\ Materialization(StoredSlots) = << 41, 65 >>

(***************************************************************************)
(* C13, amended.  stride(0) runs before the bracket phases and probes the *)
(* deletion of every byte by itself: each of the seven bytes of "(hello)" *)
(* is deleted (the candidate still contains 'A'), the 'A' is kept.  From  *)
(* the end of stride(0) on the payload is one None and 'A'; the phase     *)
(* brackets('(', ')') finds no '(' and makes no probe, nor does any other *)
(* bracket phase; the form stored is [None, 'A'], which materializes to   *)
(* "A".                                                                    *)
(***************************************************************************)
C13_BracketScenario ==
    /\ []((OnBracketScenario /\ InPhases /\ phase > Len(StrideOrder)) =>
            payload = << None, 65 >>)
    /\ [][(OnBracketScenario /\ pc \in {"closures", "closures_inner"}) =>
            ~ProbeStep]_vars
    /\ []((OnBracketScenario /\ pc = "idle" /\ calls > 0 /\ result = Ok) =>
            /\ generalized = persisted
            /\ persisted # NoGeneralized
            /\ StoredSlots = << None, 65 >>)

\* perform returned Ok on "(hello)A" after seven commits and stored the form.
C13_Witness ==
    /\ OnBracketScenario
    /\ pc = "idle"
    /\ result = Ok
    /\ commits = 7
    /\ persisted # NoGeneralized
    /\ Materialization(StoredSlots) = << 65 >>

(***************************************************************************)
(* C14  Bracket retry over closing positions.  In a bracket phase a probe *)
(* is made for a slot end > start that holds the closing byte; when the   *)
(* probe returns false, start stays where it is and the scan goes on to   *)
(* the left of end for the same opening; start becomes end only when the  *)
(* probe returned true.                                                    *)
(***************************************************************************)
C14_RetryLeft ==
    [][(pc = "closures_inner" /\ ProbeStep /\ pc' # "idle") =>
          /\ end > start
          /\ At(payload, end) = Some(Phases[phase].b)
          /\ end' = end - 1
          /\ start' = IF probe'.ret = "true" THEN end ELSE start]_vars

NominatesWholePayload ==
    /\ pc = "find_gaps"
    /\ start = 0
    /\ 0 < Len(payload)
    /\ \/ phase \in 2..4 /\ Len(payload) <= 32
       \/ /\ phase > Len(StrideOrder)
          /\ \A i \in 1..Len(payload) : payload[i] # Some(Phases[phase].a)

SomeSlotsOutside(list, s, e) ==
    LET kept == {i \in 1..Len(list) : (i <= s \/ i > e) /\ list[i] # None}
        place(k) == CHOOSE i \in kept :
                        Cardinality({j \in kept : j < i}) = k - 1
    IN  [k \in 1..Cardinality(kept) |-> list[place(k)]]

C16_CommitFrame ==
    [][(InPhases /\ ProbeStep /\ pc' # "idle") =>
          /\ start <= start' /\ start' <= Len(payload)
          /\ Len(payload') = Len(payload)
          /\ probe'.input = SomeSlotsOutside(payload, start, start')
          /\ IF probe'.ret = "true"
             THEN /\ \A i \in 1..Len(payload) :
                        payload'[i] = IF start < i /\ i <= start'
                                      THEN None ELSE payload[i]
                  /\ Materialization(payload') = probe'.input
             ELSE /\ probe'.ret = "false"
                  /\ payload' = payload]_vars

\* A bracket probe was accepted: the opening byte and what follows it up to
\* the closing byte are None, the closing byte is still there.
C16_Witness ==
    /\ pc = "closures_inner"
    /\ closureProbes = 1
    /\ probe.ret = "true"
    /\ index + 1 < start
    /\ At(payload, index) = None
    /\ At(payload, start) = Some(Phases[phase].b)

(***************************************************************************)
(* C17  Stride nomination.  In a stride phase with offset off, begun on a *)
(* payload of L slots, the k-th probe (k = 0, 1, ...) is for the range    *)
(* [k * (off + 1), min((k + 1) * (off + 1), L)), positions counted over   *)
(* all slots, None included; start moves to the end of the range whatever *)
(* the probe returned; the phase ends when start = L, after exactly       *)
(* ceil(L / (off + 1)) probes (none when L = 0).                           *)
(***************************************************************************)
InStride == pc = "find_gaps" /\ phase <= Len(StrideOrder)

StrideWidth == StrideOrder[phase] + 1

CeilDiv(a, b) == (a + b - 1) \div b

C17_StrideNomination ==
    /\ [](InStride =>
            /\ Len(payload) = Len(phasePayload)
            /\ start <= Len(payload)
            /\ start = Len(payload) \/ start % StrideWidth = 0
            /\ probes - phaseProbes = CeilDiv(start, StrideWidth))
    /\ [][(InStride /\ start < Len(payload)) =>
            /\ ProbeStep
            /\ probe'.input = SomeSlotsOutside(payload, start,
                    IF start + StrideWidth < Len(payload)
                    THEN start + StrideWidth ELSE Len(payload))
            /\ pc' # "idle" => /\ phase' = phase
                               /\ start' = IF start + StrideWidth < Len(payload)
                                           THEN start + StrideWidth
                                           ELSE Len(payload)]_vars
    /\ [][(InStride /\ phase' = phase + 1) =>
            /\ start = Len(phasePayload)
            /\ probes - phaseProbes = CeilDiv(Len(phasePayload), StrideWidth)]_vars

\* stride(63) has probed [0, 64), [64, 128) and [128, 130) of a payload of
\* 130 slots, one of them None.
C17_Witness ==
    /\ InStride
    /\ StrideWidth = 64
    /\ Len(phasePayload) = 130
    /\ \E i \in 1..Len(phasePayload) : phasePayload[i] = None
    /\ start = 130
    /\ probes - phaseProbes = 3
    /\ commits = 2

(***************************************************************************)
(* C18  Delimiter-split nomination.  In a split(ch) phase every probe is  *)
(* for the range [start, end) where end is one past the first slot at an  *)
(* index >= start that is the byte ch (also when that slot is at start    *)
(* itself), or the payload's length when there is none; a None slot is    *)
(* never taken for the delimiter; start moves to end, so the ranges are   *)
(* consecutive and cover the payload; the phase makes one probe for each  *)
(* occurrence of ch in the payload it began on, and one more when the     *)
(* slots after the last occurrence are not empty.                          *)
(***************************************************************************)
InSplit ==
    /\ pc = "find_gaps"
    /\ phase > Len(StrideOrder)
    /\ phase <= Len(StrideOrder) + Len(SplitOrder)

SplitChar == SplitOrder[phase - Len(StrideOrder)]

\* The 0-based indexes >= from of the slots of list that hold the byte ch.
Occurrences(list, ch, from) ==
    {i \in from..(Len(list) - 1) : list[i + 1] # None /\ list[i + 1] = ch}

SplitEnd ==
    LET occ == Occurrences(payload, SplitChar, start)
    IN  IF occ = {} THEN Len(payload)
        ELSE 1 + CHOOSE i \in occ : \A j \in occ : i <= j

\* The probes a split phase has made when it stands at index s of the
\* payload it began on.
SplitProbes(s) ==
    LET L == Len(phasePayload)
        before == {i \in Occurrences(phasePayload, SplitChar, 0) : i < s}
    IN  Cardinality(before)
            + IF s = L /\ L > 0 /\ (L - 1) \notin before THEN 1 ELSE 0

C18_SplitNomination ==
    /\ [](InSplit =>
            /\ Len(payload) = Len(phasePayload)
            /\ start <= Len(payload)
            /\ \A i \in (start + 1)..Len(payload) :
                    payload[i] = phasePayload[i]
            /\ \/ start = 0
               \/ start = Len(payload)
               \/ phasePayload[start] = SplitChar
            /\ probes - phaseProbes = SplitProbes(start))
    /\ [][(InSplit /\ start < Len(payload)) =>
            /\ ProbeStep
            /\ probe'.input = SomeSlotsOutside(payload, start, SplitEnd)
            /\ pc' # "idle" => /\ phase' = phase
                               /\ start' = SplitEnd]_vars
    /\ [][(InSplit /\ phase' = phase + 1) =>
            /\ start = Len(phasePayload)
            /\ probes - phaseProbes = SplitProbes(Len(phasePayload))]_vars

\* split('.') has probed [0, 1), [1, 2) and [2, 3) of the payload "..A": a
\* delimiter at start itself twice, then the tail.
C18_Witness ==
    /\ InSplit
    /\ SplitChar = 46
    /\ phasePayload = << 46, 46, 65 >>
    /\ start = 3
    /\ probes - phaseProbes = 3

(***************************************************************************)
(* C19  Bracket candidate asymmetry.  Every probe of a bracket phase is   *)
(* made with payload[start] the opening byte and payload[end] the closing *)
(* byte, start < end, on the bytes of the payload outside [start, end):   *)
(* the bytes before start, then the closing byte, then the bytes after    *)
(* end.  When the probe returns true the slot at start is None afterwards *)
(* and the slot at end still holds the closing byte, also for a pair      *)
(* whose opening and closing bytes are the same.                           *)
(***************************************************************************)
InBrackets ==
    /\ pc = "closures_inner"
    /\ phase > Len(StrideOrder) + Len(SplitOrder)
    /\ phase <= LastPhase

BracketPair == BracketOrder[phase - Len(StrideOrder) - Len(SplitOrder)]

C19_BracketCandidate ==
    [][(InBrackets /\ ProbeStep) =>
          /\ start < end /\ end < Len(payload)
          /\ payload[start + 1] = BracketPair[1]
          /\ payload[end + 1] = BracketPair[2]
          /\ probe'.input = SomeSlotsOutside(payload, start, end)
          /\ probe'.input =
                FilterUnwrap(Slice(payload, 0, start))
                    \o << BracketPair[2] >>
                    \o FilterUnwrap(Slice(payload, end + 1, Len(payload)))
          /\ (pc' # "idle" /\ probe'.ret = "true") =>
                /\ payload'[start + 1] = None
                /\ \A i \in (start + 1)..end : payload'[i] = None
                /\ payload'[end + 1] = BracketPair[2]
          /\ (pc' # "idle" /\ probe'.ret = "false") => payload' = payload]_vars

\* The phase of the pair ("", "") has had its probe accepted on a payload of
\* three slots: the opening quote and the byte after it are None, the closing
\* quote is still there.
C19_Witness ==
    /\ InBrackets
    /\ BracketPair = << 34, 34 >>
    /\ probes - phaseProbes = 1
    /\ probe.ret = "true"
    /\ phasePayload[1] = 34
    /\ payload = << None, None, 34 >>

(***************************************************************************)
(* C20  Trim.  trim_payload keeps every byte of the payload, with its     *)
(* value and in its order; between two bytes that follow each other,      *)
(* before the first byte and after the last byte it leaves one None slot  *)
(* where the payload had one or more and none where the payload had none; *)
(* applying it to its own result changes nothing.                         *)
(***************************************************************************)
\* The 1-based position in list of its k-th byte; 0 for k = 0 and one past
\* the end of list for k beyond the last byte.
BytePlace(list, k) ==
    LET places == {i \in 1..Len(list) : list[i] # None}
    IN  IF k = 0 THEN 0
        ELSE IF k > Cardinality(places) THEN Len(list) + 1
        ELSE CHOOSE i \in places : Cardinality({j \in places : j < i}) = k - 1

\* The number of None slots of list between its (k-1)-th and its k-th byte.
GapRun(list, k) == BytePlace(list, k) - BytePlace(list, k - 1) - 1

\* t is p with each maximal run of None slots made a single None slot.
IsTrimOf(t, p) ==
    LET n == Cardinality({i \in 1..Len(p) : p[i] # None})
    IN  /\ Cardinality({i \in 1..Len(t) : t[i] # None}) = n
        /\ \A k \in 1..n : t[BytePlace(t, k)] = p[BytePlace(p, k)]
        /\ \A k \in 1..(n + 1) :
                GapRun(t, k) = IF GapRun(p, k) >= 1 THEN 1 ELSE 0

C20_Trim ==
    /\ [][(pc = "trim" /\ calls' = calls + 1) =>
            /\ IsTrimOf(payload', payload)
            /\ Materialization(payload') = Materialization(payload)
            /\ NoAdjacentGaps(payload')]_vars
    /\ [][(pc = "trim" /\ calls >= 1 /\ calls' = calls + 1) =>
            payload' = payload]_vars
    /\ [](pc = "trim" /\ calls >= 1 => IsTrimOf(payload, phasePayload))

\* trim_payload has been applied twice to [None, None, 'A', None, None]: the
\* run before the byte and the run after it are one None slot each, and they
\* are not merged.
C20_Witness ==
    /\ pc = "trim"
    /\ calls = 2
    /\ phasePayload = << None, None, 65, None, None >>
    /\ payload = << None, 65, None >>

(***************************************************************************)
(* C21  Probe step order.  Every call of verify_input that returns true   *)
(* or false has called pre_exec_all once, then run_target once, then      *)
(* raised state.executions by one, then called post_exec_all once, then   *)
(* looked the map observer up and asked it how_many_set(novelties), in    *)
(* this order and on the one candidate; it returns true exactly when a    *)
(* map the run of the target on the candidate can leave has all the       *)
(* novelties set.  A call of verify_input is made only after the call     *)
(* before it, if there is one, has been through its post_exec_all.         *)
(***************************************************************************)
Completed(v) == v.ret \in {"true", "false"}

Position(log, call) == CHOOSE i \in 1..Len(log) : log[i] = call

Once(log, call) == Cardinality({i \in 1..Len(log) : log[i] = call}) = 1

C21_ProbeOrder ==
    /\ [][(ProbeStep /\ Completed(probe')) =>
            /\ \A call \in Hooks \cup {"executions", "how_many_set"} :
                    Once(probe'.log, call)
            /\ Position(probe'.log, "pre_exec_all")
                    < Position(probe'.log, "run_target")
            /\ Position(probe'.log, "run_target")
                    < Position(probe'.log, "executions")
            /\ Position(probe'.log, "executions")
                    < Position(probe'.log, "post_exec_all")
            /\ Position(probe'.log, "post_exec_all")
                    < Position(probe'.log, "how_many_set")
            /\ Position(probe'.log, "how_many_set") = Len(probe'.log)
            /\ executions' = executions + 1
            /\ probe'.ret = "true" =>
                    \E cov \in Observed(probe'.input) : novelties \subseteq cov
            /\ probe'.ret = "false" =>
                    \E cov \in Observed(probe'.input) :
                        ~(novelties \subseteq cov)]_vars
    /\ [][(ProbeStep /\ probe # NoProbe) =>
            /\ Completed(probe)
            /\ Once(probe.log, "post_exec_all")
            /\ probe'.log[1] = "pre_exec_all"]_vars

\* A probe that returned false after one that returned true, on a target
\* that always leaves the same map.
C21_Witness ==
    /\ ~flaky
    /\ probes >= 2
    /\ probe.ret = "false"
    /\ commits >= 1
    /\ Len(probe.log) = 6
    /\ executions - execsAtCall = probes

(***************************************************************************)
(* C22  Index safety.  No index of perform goes below zero and every      *)
(* slice and slot that is read lies inside the payload.  In find_gaps     *)
(* every probe is for a range with 0 <= start < end <= payload.len().  In *)
(* find_gaps_in_closures payload.len() - 1 is computed only for a payload *)
(* of at least one slot, payload[end] is read only for                    *)
(* start < end <= payload.len() - 1, and end is decremented only when it  *)
(* is at least 1.  This holds for every input, the empty one and those    *)
(* made of bracket bytes only included.                                    *)
(***************************************************************************)
InBounds(i, list) == 0 <= i /\ i <= Len(list)

C22_IndexSafety ==
    /\ [](/\ start >= 0 /\ end >= 0 /\ index >= 0
          /\ pc \in {"find_gaps", "closures", "closures_inner"} =>
                /\ InBounds(start, payload)
                /\ InBounds(end, payload)
                /\ InBounds(index, payload)
          /\ pc = "closures_inner" =>
                /\ Len(payload) >= 1
                /\ end <= Len(payload) - 1)
    /\ [][(pc = "find_gaps" /\ ProbeStep) =>
            /\ start < Len(payload)
            /\ \E e \in (start + 1)..Len(payload) :
                    /\ probe'.input = SomeSlotsOutside(payload, start, e)
                    /\ pc' # "idle" => start' = e]_vars
    /\ [][(pc = "closures" /\ pc' = "closures_inner") =>
            /\ Len(payload) >= 1
            /\ end' = Len(payload) - 1
            /\ start' = index'
            /\ index <= index' /\ index' <= Len(payload)
            /\ \A i \in index..(index' - 1) : i < Len(payload)]_vars
    /\ [][(pc = "closures_inner" /\ end' # end) =>
            /\ start < end /\ end <= Len(payload) - 1
            /\ end >= 1
            /\ pc' # "idle" => end' = end - 1]_vars

\* The call for ( ) on the input "(((" stands in its inner loop, on a payload
\* whose last slot is the opening byte: start = end = payload.len() - 1.
C22_Witness ==
    /\ bytes = << 40, 40, 40 >>
    /\ pc = "closures_inner"
    /\ Phases[phase].a = 40
    /\ payload = << None, 40 >>
    /\ start = 1
    /\ end = 1

(***************************************************************************)
(* C23  Stride and split progress.  In every call of find_gaps each probe *)
(* is for a range that is not empty, so start grows with every probe,     *)
(* whatever the probe returns and also on a target whose coverage is not  *)
(* reproducible; the call has made at most start probes, hence at most    *)
(* payload.len(), and every step taken inside it is a probe or its end.  *)
(* The calls of find_gaps follow one another (lines 97-217), so each of   *)
(* them ends exactly when a run that is in find_gaps gets out of it: to   *)
(* the first call of find_gaps_in_closures, or by an error.               *)
(***************************************************************************)
InFindGaps == pc = "find_gaps"

C23_FindGapsProgress ==
    /\ [](InFindGaps =>
            /\ probes - phaseProbes <= start
            /\ start <= Len(phasePayload)
            /\ Len(payload) = Len(phasePayload))
    /\ [][InFindGaps =>
            \/ ProbeStep /\ pc' = "idle"
            \/ /\ ProbeStep
               /\ InFindGaps' /\ phase' = phase
               /\ start' > start
               /\ Len(payload') - start' < Len(payload) - start
            \/ /\ start = Len(payload)
               /\ phase' = phase + 1
               /\ probes' = probes
               /\ probes - phaseProbes <= Len(phasePayload)]_vars
    /\ InFindGaps ~> ~InFindGaps

\* stride(0) on a target whose coverage is not reproducible: two slots, two
\* probes, one accepted and one rejected, and the loop is at its end.
C23_Witness ==
    /\ flaky
    /\ InFindGaps
    /\ phase = Len(StrideOrder)
    /\ Len(phasePayload) = 2
    /\ start = 2
    /\ probes - phaseProbes = 2
    /\ commits = 1

====
